---- MODULE Spec2Model ----
(***************************************************************************)
(* ProgramMapper of midi_controller.py: the reducer that turns foot-switch *)
(* MIDI events into looper program-change / control-change messages.       *)
(* Time is in milliseconds.  One action, Handle, is one call of            *)
(* ProgramMapper.handle; the clock reads it makes (datetime.now()) are     *)
(* inputs of the action, each no earlier than the one before.              *)
(***************************************************************************)
EXTENDS Integers, Sequences, FiniteSets, TLC

VARIABLES
    programs,         \* self.programs (lines 54-60): program -> loop -> BOOLEAN
    state_file,       \* the table in the JSON state file (lines 55-56, 171-172)
    edit_mode,        \* self.edit_mode (line 64)
    active_program,   \* self.active_program (line 65)
    active_state,     \* self.active_state (lines 68, 158): loop -> BOOLEAN
    ts_history,       \* self.ts_history (line 71): 3 timestamps, oldest first
    program_history,  \* self.program_history (line 72): 3 programs, oldest first
    last_ts,          \* self.last_ts (lines 73, 78)
    now,              \* the clock when the last operation ended
    handled,          \* how many handle() calls there have been (line 188)
    message,          \* the message given to the last handle() call (line 75)
    clk,              \* the clock at lines 78, 82 and 87 of that call
    did,              \* where that call left handle() (for __init__: "init")
    sent,             \* what the last operation gave to outport.send, in order
    writes,           \* how many times the last operation wrote the state file
    crashed,          \* an exception left handle(): the loop of line 187 is over
    exception,        \* the exception that left handle(), "none" if none did
    store_fault,      \* what save_programs meets: "none", open() of line 171
                      \* raises ("open"), or the file is opened, and so
                      \* emptied, and the write of line 172 raises ("write")
    press_log         \* for each entry of the histories: the mode and program
                      \* its handle() call found, the program-changes it sent

vars == <<programs, state_file, edit_mode, active_program, active_state,
          ts_history, program_history, last_ts, now, handled, message, clk,
          did, sent,
          writes, crashed, exception, store_fault,
          press_log>>

(***************************************************************************)
(* Configuration (constructor arguments) and bounds of the model.          *)
(***************************************************************************)
in_channel == 0
out_channel == 3
n_loops == 4
\* self.n_programs = n_banks * bank_size: the size of the program table
n_programs == 2
tripletap_time == 1000
debounce_time == 100

\* the clock stops at MaxTime; MaxEvents bounds the handle() calls of a run
\* whose calls each see one clock value, MaxDriftEvents those of a run whose
\* clock moves between the reads of one call
MaxTime == 1300
MaxEvents == 4
MaxDriftEvents == 3
MaxTapEvents == 7

\* how far the clock moves between two events: less than the debounce time,
\* exactly it, more than it, and long enough to let a triple-tap lapse
Gaps == {50, 100, 150, 850}
\* how far it moves between the reads at lines 78 and 82, and 82 and 87
NoDrift == {<<0, 0>>}
Drifts == {<<0, 0>>, <<0, 50>>, <<50, 0>>}

NoField == -1

Loops == 0 .. (n_loops - 1)
ProgramSlots == 0 .. (n_programs - 1)
LoopStates == [Loops -> BOOLEAN]

\* the values a MIDI message can carry that the model draws from: the input
\* channel and another one, every program slot and one program number past
\* the table, the loop controls and one control on either side
InPrograms == 0 .. n_programs
InControls == 79 .. 84

ProgramChange(ch, p) ==
    [type |-> "program_change", channel |-> ch, program |-> p,
     control |-> NoField, value |-> NoField]
ControlChange(ch, c, v) ==
    [type |-> "control_change", channel |-> ch, program |-> NoField,
     control |-> c, value |-> v]
NoteOn(ch) ==
    [type |-> "note_on", channel |-> ch, program |-> NoField,
     control |-> NoField, value |-> NoField]

\* a message of a type without a channel: mido.Message("clock")
Clock ==
    [type |-> "clock", channel |-> NoField, program |-> NoField,
     control |-> NoField, value |-> NoField]

InMessages ==
    {ProgramChange(in_channel, p) : p \in InPrograms}
    \cup {ControlChange(in_channel, c, 127) : c \in InControls}
    \cup {NoteOn(in_channel), Clock}
    \cup {ProgramChange(in_channel + 1, 0), ControlChange(in_channel + 1, 80, 127),
          NoteOn(in_channel + 1)}

(***************************************************************************)
(* Pure helpers.                                                           *)
(***************************************************************************)
\* variant: the digits of (True, False) and (False, True) swapped
looper_programs_swapped(a, b) ==
    CASE ~a /\ ~b -> 0
      [] a /\ ~b -> 2
      [] ~a /\ b -> 1
      [] a /\ b -> 3

\* self.looper_programs
looper_programs(a, b) ==
    CASE ~a /\ ~b -> 0
      [] a /\ ~b -> 1
      [] ~a /\ b -> 2
      [] a /\ b -> 3

\* variant: the left digit without its offset of one
looper_program_no_offset(state) ==
    10 * looper_programs(state[0], state[1]) + looper_programs(state[2], state[3])

\* apply_program: the looper program number of a loop state
looper_program(state) ==
    LET digit_left == 1 + looper_programs(state[0], state[1])
        digit_right == looper_programs(state[2], state[3])
    IN 10 * digit_left + digit_right

\* apply_program: the message it sends for a loop state
apply_message(state) == ProgramChange(out_channel, looper_program(state))

\* variant: the loop in the order of the buttons, not reversed
loop_of_unreversed(control) == control - 80

\* loop = 3 - message.control + 80
loop_of(control) == 3 - control + 80

\* 80 <= message.control <= 83
is_loop_control(control) == 80 <= control /\ control <= 83

\* variant: the value is 127 whether the loop went on or off
toggle_message_always_on(loop, state) ==
    ControlChange(out_channel, 80 + loop, 127)

\* the control-change a manual toggle sends
toggle_message(loop, state) ==
    ControlChange(out_channel, 80 + loop, 127 * (IF state[loop] THEN 1 ELSE 0))

\* variant: the stamp is taken only when the event is not debounced
arrival_stamp_if_passed(lts, t1) == IF t1 - lts < debounce_time THEN lts ELSE t1

\* lts = self.last_ts; self.last_ts = datetime.now()
arrival_stamp(lts, t1) == t1

\* variant: a refractory window of half the length
debounced_half(lts, t1) == 2 * (t1 - lts) < debounce_time

\* self.last_ts - lts < timedelta(milliseconds=100)
debounced(lts, t1) == t1 - lts < debounce_time

\* datetime.now() - self.ts_history[-1] > timedelta(milliseconds=100)
\* variant: an event exactly 100 ms after the newest history entry passes
after_history_inclusive(ts, t2) == t2 - ts[3] >= debounce_time

after_history(ts, t2) == t2 - ts[3] > debounce_time

\* deque.popleft(); deque.append(x)
push(dq, x) == <<dq[2], dq[3], x>>

\* variant: the window excludes its boundary
tripletap_strict(ts, ph) ==
    /\ ts[3] - ts[1] < tripletap_time
    /\ ph[1] = ph[2]
    /\ ph[2] = ph[3]

\* variant: three equal programs, however far apart
tripletap_untimed(ts, ph) ==
    /\ ph[1] = ph[2]
    /\ ph[2] = ph[3]

\* the triple-tap test on the histories
tripletap(ts, ph) ==
    /\ ts[3] - ts[1] <= tripletap_time
    /\ ph[1] = ph[2]
    /\ ph[2] = ph[3]

\* the program-changes among the messages sent
program_changes(msgs) ==
    Cardinality({i \in DOMAIN msgs : msgs[i].type = "program_change"})

\* the press_log entry of a history entry no handle() call made
NoPress == [edit |-> FALSE, active |-> NoField, sent |-> 0]

\* variant: a program-change switches to its program even if it is active
is_any_program(active, program) == TRUE

\* self.active_program != message.program
is_other_program(active, program) == active # program

\* message.channel == self.in_channel
on_input_channel(m) == m.channel = in_channel

\* the state file after open(self.state_file, "w") and no write: no table
EmptyFile == <<>>

\* the state file after a save_programs that raised: untouched if open()
\* raised, emptied if the write after it did
failed_save(fault, file) == IF fault = "open" THEN file ELSE EmptyFile

\* the message carries a channel (a clock, start, stop or sysex message does
\* not, and reading message.channel raises AttributeError)
has_channel(m) == m.channel # NoField

flip(state, loop) == [state EXCEPT ![loop] = ~state[loop]]

AllOff == [p \in ProgramSlots |-> [l \in Loops |-> FALSE]]

\* the tables a state file left by an earlier run may hold (a sample)
SomeOn == [l \in Loops |-> l \in {0, 3}]
StoredTables == {AllOff, [p \in ProgramSlots |-> SomeOn]}

\* no state file: open(self.state_file, "r") raises FileNotFoundError
NoFile == <<NoField>>

\* what a start may find in the place of the state file: nothing, a file
\* without a table (as a failed write leaves it), or a table
StartFiles == {NoFile, EmptyFile} \cup StoredTables

\* what save_programs may meet
SaveFaults == {"none", "open", "write"}

\* lines 54-61: the exception that leaves __init__, "none" if none does.
\* Only FileNotFoundError of the read is caught; json.load of a file without
\* a table raises JSONDecodeError, and save_programs of line 61 raises
\* OSError when the file cannot be opened for writing or written
init_exception(file, fault) ==
    IF file = NoFile
    THEN (IF fault = "none" THEN "none" ELSE "OSError")
    ELSE IF file = EmptyFile THEN "JSONDecodeError" ELSE "none"

(***************************************************************************)
(* Construction: ProgramMapper.__init__.  file is what the start finds in  *)
(* the place of the state file, fault what save_programs meets.  When an   *)
(* exception leaves __init__ there is no mapper and no event is handled:   *)
(* nothing was sent, and the attributes not yet assigned are never read.   *)
(***************************************************************************)
Construct(InitDrifts) ==
    \E file \in StartFiles, fault \in SaveFaults, d \in InitDrifts :
        \* save_programs is called, and the store asked, only without a file
        /\ file # NoFile => fault = "none"
        /\ exception = init_exception(file, fault)
        /\ crashed = (exception # "none")
        /\ programs = IF file \in StoredTables THEN file ELSE AllOff
        /\ state_file = IF file # NoFile THEN file
                        ELSE IF fault = "none" THEN programs
                        ELSE failed_save(fault, file)
        /\ writes = IF file = NoFile /\ fault = "none" THEN 1 ELSE 0
        /\ store_fault = fault
        /\ edit_mode = FALSE
        /\ active_program = 0
        /\ active_state = programs[0]
        \* apply_program of line 66 is reached only if nothing was raised
        /\ sent = IF crashed THEN <<>> ELSE <<apply_message(programs[0])>>
        /\ ts_history = <<0, 0, 0>>
        /\ program_history = <<-1, -1, -1>>
        /\ last_ts = d
        /\ now = d
        /\ handled = 0
        /\ message = NoteOn(in_channel)
        /\ clk = <<0, d, d>>
        /\ did = "init"
        /\ press_log = <<NoPress, NoPress, NoPress>>

(***************************************************************************)
(* ProgramMapper.handle, branch by branch.                                 *)
(***************************************************************************)
\* a return or fall-through that touches nothing but the clocks
Ignore(where) ==
    /\ did' = where
    /\ sent' = <<>>
    /\ writes' = 0
    /\ UNCHANGED <<programs, state_file, edit_mode, active_program,
                   active_state, crashed, exception>>

\* message.channel of line 82 on a message without a channel: AttributeError
\* leaves handle() after last_ts was set, and the loop ends
NoChannel ==
    /\ did' = "no_channel"
    /\ crashed' = TRUE
    /\ exception' = "AttributeError"
    /\ sent' = <<>>
    /\ writes' = 0
    /\ UNCHANGED <<programs, state_file, edit_mode, active_program,
                   active_state>>

\* variant: leaving edit mode applies the active program again
ExitEditApplying ==
    /\ did' = "exit_edit"
    /\ edit_mode' = FALSE
    /\ sent' = <<apply_message(programs[active_program])>>
    /\ writes' = 0
    /\ UNCHANGED <<programs, state_file, active_program, active_state, crashed, exception>>

\* variant: leaving edit mode selects the program of the button pressed
ExitEditSelecting ==
    /\ did' = "exit_edit"
    /\ edit_mode' = FALSE
    /\ active_program' = program_history'[3]
    /\ sent' = <<>>
    /\ writes' = 0
    /\ UNCHANGED <<programs, state_file, active_state, crashed, exception>>

\* exit edit mode
ExitEdit ==
    /\ did' = "exit_edit"
    /\ edit_mode' = FALSE
    /\ sent' = <<>>
    /\ writes' = 0
    /\ UNCHANGED <<programs, state_file, active_program, active_state, crashed, exception>>

\* variant: the edit is saved but apply_program is not called
EditProgramUnapplied(control) ==
    LET p == active_program
        loop == loop_of(control)
    IN /\ did' = "edit_program"
       /\ IF p \in ProgramSlots
          THEN /\ programs' = [programs EXCEPT ![p] = flip(programs[p], loop)]
               /\ sent' = <<>>
               /\ state_file' = programs'
               /\ writes' = 1
               /\ UNCHANGED <<active_state, edit_mode, active_program, crashed, exception>>
          ELSE /\ crashed' = TRUE /\ exception' = "IndexError"
               /\ sent' = <<>>
               /\ writes' = 0
               /\ UNCHANGED <<programs, state_file, edit_mode, active_program,
                              active_state>>

\* variant: the edit changes the table in memory and is not saved
EditProgramUnsaved(control) ==
    LET p == active_program
        loop == loop_of(control)
    IN /\ did' = "edit_program"
       /\ IF p \in ProgramSlots
          THEN /\ programs' = [programs EXCEPT ![p] = flip(programs[p], loop)]
               /\ active_state' = programs'[p]
               /\ sent' = <<apply_message(programs'[p])>>
               /\ writes' = 0
               /\ UNCHANGED <<state_file, edit_mode, active_program, crashed, exception>>
          ELSE /\ crashed' = TRUE /\ exception' = "IndexError"
               /\ sent' = <<>>
               /\ writes' = 0
               /\ UNCHANGED <<programs, state_file, edit_mode, active_program,
                              active_state>>

\* edit program: flip the loop in the table, apply_program, save_programs
EditProgram(control) ==
    LET p == active_program
        loop == loop_of(control)
    IN /\ did' = "edit_program"
       /\ IF p \in ProgramSlots
          THEN /\ programs' = [programs EXCEPT ![p] = flip(programs[p], loop)]
               /\ active_state' = programs'[p]
               /\ sent' = <<apply_message(programs'[p])>>
               /\ IF store_fault = "none"
                  THEN /\ state_file' = programs'
                       /\ writes' = 1
                       /\ UNCHANGED <<crashed, exception>>
                  ELSE \* OSError in save_programs: handle and the loop end
                       /\ crashed' = TRUE
                       /\ exception' = "OSError"
                       /\ writes' = 0
                       /\ state_file' = failed_save(store_fault, state_file)
               /\ UNCHANGED <<edit_mode, active_program>>
          ELSE \* IndexError at self.programs[p]
               /\ crashed' = TRUE /\ exception' = "IndexError"
               /\ sent' = <<>>
               /\ writes' = 0
               /\ UNCHANGED <<programs, state_file, edit_mode, active_program,
                              active_state>>

\* hitting the same program button thrice activates edit mode
EnterEdit(program) ==
    /\ did' = "enter_edit"
    /\ edit_mode' = TRUE
    /\ active_program' = program
    /\ sent' = <<>>
    /\ writes' = 0
    /\ UNCHANGED <<programs, state_file, active_state, crashed, exception>>

\* variant: the program is applied but active_program keeps its value
ChangeProgramUnselected(program) ==
    /\ did' = "change_program"
    /\ IF program \in ProgramSlots
       THEN /\ active_state' = programs[program]
            /\ sent' = <<apply_message(programs[program])>>
            /\ UNCHANGED <<crashed, exception>>
       ELSE /\ crashed' = TRUE /\ exception' = "IndexError"
            /\ sent' = <<>>
            /\ UNCHANGED active_state
    /\ writes' = 0
    /\ UNCHANGED <<programs, state_file, edit_mode, active_program>>

\* variant: the program is selected but apply_program is not called
ChangeProgramUnapplied(program) ==
    /\ did' = "change_program"
    /\ active_program' = program
    /\ sent' = <<>>
    /\ writes' = 0
    /\ UNCHANGED <<programs, state_file, edit_mode, active_state, crashed, exception>>

\* change program
ChangeProgram(program) ==
    /\ did' = "change_program"
    /\ active_program' = program
    /\ IF program \in ProgramSlots
       THEN /\ active_state' = programs[program]
            /\ sent' = <<apply_message(programs[program])>>
            /\ UNCHANGED <<crashed, exception>>
       ELSE \* IndexError at self.programs[message.program] in the log line
            /\ crashed' = TRUE /\ exception' = "IndexError"
            /\ sent' = <<>>
            /\ UNCHANGED active_state
    /\ writes' = 0
    /\ UNCHANGED <<programs, state_file, edit_mode>>

\* toggle loops manually but dont change program data
ToggleLoop(control) ==
    LET loop == loop_of(control)
    IN /\ did' = "toggle_loop"
       /\ active_state' = flip(active_state, loop)
       /\ sent' = <<toggle_message(loop, active_state')>>
       /\ writes' = 0
       /\ UNCHANGED <<programs, state_file, edit_mode, active_program, crashed, exception>>

\* lines 85-155: the message passed both filters
Dispatch(m, t3) ==
    LET pc == m.type = "program_change"
        cc == m.type = "control_change"
        ts == IF pc THEN push(ts_history, t3) ELSE ts_history
        ph == IF pc THEN push(program_history, m.program) ELSE program_history
    IN /\ ts_history' = ts
       /\ program_history' = ph
       /\ IF edit_mode
          THEN IF pc /\ ph[3] # active_program
               THEN ExitEdit
               ELSE IF cc /\ is_loop_control(m.control)
                    THEN EditProgram(m.control)
                    ELSE Ignore("no_match")
          ELSE IF pc /\ tripletap(ts, ph)
               THEN EnterEdit(m.program)
               ELSE IF pc /\ is_other_program(active_program, m.program)
                    THEN ChangeProgram(m.program)
                    ELSE IF cc /\ is_loop_control(m.control)
                         THEN ToggleLoop(m.control)
                         ELSE Ignore("no_match")
       /\ press_log' = IF pc
                       THEN push(press_log, [edit |-> edit_mode,
                                             active |-> active_program,
                                             sent |-> program_changes(sent')])
                       ELSE press_log

\* handle(message), reading the clock at t1 (line 78), t2 (line 82), t3 (line 87)
Handle(m, t1, t2, t3) ==
    /\ ~crashed
    /\ handled' = handled + 1
    /\ message' = m
    /\ clk' = <<t1, t2, t3>>
    /\ now' = t3
    /\ last_ts' = arrival_stamp(last_ts, t1)
    /\ UNCHANGED store_fault
    /\ IF debounced(last_ts, t1)
       THEN /\ Ignore("debounced")
            /\ UNCHANGED <<ts_history, program_history, press_log>>
       ELSE IF ~has_channel(m)
            THEN /\ NoChannel
                 /\ UNCHANGED <<ts_history, program_history, press_log>>
            ELSE IF ~on_input_channel(m)
                 THEN /\ Ignore("filtered")
                      /\ UNCHANGED <<ts_history, program_history, press_log>>
                 ELSE IF ~after_history(ts_history, t2)
                      THEN /\ Ignore("filtered")
                           /\ UNCHANGED <<ts_history, program_history,
                                          press_log>>
                      ELSE Dispatch(m, t3)

\* the clock reads of one handle() call that starts g after the last read
Reads(g, d) == <<now + g, now + g + d[1], now + g + d[1] + d[2]>>

\* the event loop: for message in inport: mapper.handle(message)
Loop(drifts, max_events) ==
    \E m \in InMessages, g \in Gaps, d \in drifts :
        /\ handled < max_events
        /\ Reads(g, d)[3] <= MaxTime
        /\ Handle(m, Reads(g, d)[1], Reads(g, d)[2], Reads(g, d)[3])

\* every call of handle() sees one value of the clock
Init == Construct({0})
Next == Loop(NoDrift, MaxEvents)
Spec == Init /\ [][Next]_vars

\* the clock moves between the reads of one call
InitDrift == Construct({0, 50})
NextDrift == Loop(Drifts, MaxDriftEvents)
SpecDrift == InitDrift /\ [][NextDrift]_vars

\* the file system under the state file: save_programs starts to fail, at
\* open(self.state_file, "w") (read-only file system, lost permission) or at
\* the write after it (file-size limit, quota, full disk), and may succeed
\* again later
StoreBreaks ==
    /\ ~crashed
    /\ store_fault = "none"
    /\ store_fault' \in {"open", "write"}
    /\ UNCHANGED <<programs, state_file, edit_mode, active_program, active_state,
                   ts_history, program_history, last_ts, now, handled, message,
                   clk, did, sent, writes, crashed, exception, press_log>>

StoreRecovers ==
    /\ ~crashed
    /\ store_fault # "none"
    /\ store_fault' = "none"
    /\ UNCHANGED <<programs, state_file, edit_mode, active_program, active_state,
                   ts_history, program_history, last_ts, now, handled, message,
                   clk, did, sent, writes, crashed, exception, press_log>>

\* the event loop over a state file that can become unwritable
NextFail == Loop(NoDrift, MaxEvents) \/ StoreBreaks \/ StoreRecovers
SpecFail == Init /\ [][NextFail]_vars

\* the foot switches alone: program changes and the control of loop 0 on the
\* input channel, pressed quickly or after a pause
TapMessages ==
    {ProgramChange(in_channel, p) : p \in InPrograms}
    \cup {ControlChange(in_channel, 83, 127)}

TapGaps == {150, 850}

Presses(max_events) ==
    \E m \in TapMessages, g \in TapGaps :
        /\ handled < max_events
        /\ Reads(g, <<0, 0>>)[3] <= MaxTime
        /\ Handle(m, Reads(g, <<0, 0>>)[1], Reads(g, <<0, 0>>)[2],
                  Reads(g, <<0, 0>>)[3])

NextTaps == Presses(MaxTapEvents)
SpecTaps == Init /\ [][NextTaps]_vars

(***************************************************************************)
(* Vocabulary of the properties.  A step of the event loop takes the state *)
(* before a handle() call (unprimed) to the state after it (primed);       *)
(* message' and clk' are the call's message and clock values.              *)
(***************************************************************************)
Handled == handled' = handled + 1

\* the event passes the admission filter: not within 100 ms of the last
\* stamp, on the input channel, and more than 100 ms after the newest entry
\* of the event history
Admitted ==
    /\ Handled
    /\ clk'[1] - last_ts >= 100
    /\ message'.channel = in_channel
    /\ clk'[2] - ts_history[3] > 100

\* the event is rejected by the admission filter: it comes within 100 ms of
\* the last stamp, or carries another channel than the input channel, or
\* comes within 100 ms of the newest entry of the event history
Rejected ==
    /\ Handled
    /\ \/ clk'[1] - last_ts < 100
       \/ /\ message'.channel # NoField
          /\ \/ message'.channel # in_channel
             \/ clk'[2] - ts_history[3] <= 100

AdmittedProgramChange == Admitted /\ message'.type = "program_change"

AdmittedLoopControl ==
    /\ Admitted
    /\ message'.type = "control_change"
    /\ message'.control \in 80 .. 83

\* after the step the three history entries carry program p and span at most
\* the triple-tap window
CompletesTripleTap(p) ==
    /\ program_history' = <<p, p, p>>
    /\ ts_history'[3] - ts_history'[1] <= 1000

\* the digit table and the encoding of section 4.3
Digit(a, b) == IF a THEN (IF b THEN 3 ELSE 1) ELSE (IF b THEN 2 ELSE 0)
Encode(f) == 10 * (Digit(f[0], f[1]) + 1) + Digit(f[2], f[3])
LooperNumbers == {10 * l + r : l \in 1 .. 4, r \in 0 .. 3}

\* the step writes nothing to the store and sends nothing
Silent == sent' = <<>> /\ writes' = 0 /\ state_file' = state_file

(***************************************************************************)
(* C1  Triple-tap entry: in Normal mode, an admitted program-change for P  *)
(* after which all three history entries carry P and the span from the     *)
(* oldest to the newest timestamp is at most tripletap_time (boundary      *)
(* included) puts the mapper in Edit mode with active_program = P.         *)
(***************************************************************************)
C1_TripleTapEntersEdit ==
    [][ (/\ AdmittedProgramChange
         /\ ~edit_mode
         /\ CompletesTripleTap(message'.program))
        => (edit_mode' /\ active_program' = message'.program) ]_vars

\* three taps of program 1 whose span is exactly the window: Edit(1)
C1_Witness ==
    /\ did = "enter_edit"
    /\ edit_mode
    /\ active_program = 1
    /\ program_history = <<1, 1, 1>>
    /\ ts_history[3] - ts_history[1] = tripletap_time

(***************************************************************************)
(* C2  Edit mode is entered only by a triple-tap: the mode goes from       *)
(* Normal to Edit only on an admitted program-change after which the three *)
(* history entries are three taps of its program spanning at most          *)
(* tripletap_time; an admitted program-change for P in Normal mode whose   *)
(* history spans more than that leaves the mode Normal with                *)
(* active_program = P.                                                     *)
(***************************************************************************)
C2_EditOnlyByTripleTap ==
    [][ /\ (~edit_mode /\ edit_mode')
            => (/\ AdmittedProgramChange
                /\ message'.program >= 0
                /\ CompletesTripleTap(message'.program)
                /\ handled' >= 3)
        /\ (/\ AdmittedProgramChange
            /\ ~edit_mode
            /\ ts_history'[3] - ts_history'[1] > 1000)
            => (~edit_mode' /\ active_program' = message'.program) ]_vars

\* three taps of program 1, the third more than the window after the first
C2_Witness ==
    /\ handled = 3
    /\ did = "no_match"
    /\ ~edit_mode
    /\ active_program = 1
    /\ program_history = <<1, 1, 1>>
    /\ ts_history[3] - ts_history[1] > tripletap_time

(***************************************************************************)
(* C3  Edit-mode toggle: in Edit(p) an admitted control-change with        *)
(* control c in 80..83 flips ProgramTable[p][3 - (c - 80)] and no other    *)
(* flag, stays in Edit(p), makes ActiveState the updated entry, sends one  *)
(* program-change on out_channel with its encoding, and writes the whole   *)
(* updated table to the store.                                             *)
(***************************************************************************)
C3_EditToggle ==
    [][ (AdmittedLoopControl /\ edit_mode)
        => LET p == active_program
               loop == 3 - (message'.control - 80)
           IN /\ p \in ProgramSlots
              /\ programs' = [programs EXCEPT ![p][loop] = ~programs[p][loop]]
              /\ edit_mode'
              /\ active_program' = p
              /\ active_state' = programs'[p]
              /\ sent' = <<ProgramChange(out_channel, Encode(programs'[p]))>>
              /\ writes' = 1
              /\ state_file' = programs' ]_vars

\* control 80 pressed in Edit(p): loop 3 of p is now on, and stored
C3_Witness ==
    /\ did = "edit_program"
    /\ edit_mode
    /\ message.control = 80
    /\ programs[active_program][3]
    /\ ~programs[active_program][0]
    /\ state_file = programs
    /\ writes = 1

(***************************************************************************)
(* C4 as stated: in Edit(P) with all loops of P off, an admitted           *)
(* control-change on control 82 sets ProgramTable[P][1], sends a           *)
(* program-change with program number 12, and the store then holds the     *)
(* updated table.                                                          *)
(***************************************************************************)
C4_Control82Sends12 ==
    [][ (/\ AdmittedLoopControl
         /\ edit_mode
         /\ message'.control = 82
         /\ active_program \in ProgramSlots
         /\ \A l \in Loops : ~programs[active_program][l])
        => (/\ programs'[active_program] = [l \in Loops |-> l = 1]
            /\ Len(sent') = 1
            /\ sent'[1].type = "program_change"
            /\ sent'[1].program = 12
            /\ state_file' = programs') ]_vars

(***************************************************************************)
(* C4 amended: in Edit(P) with all loops of P off, an admitted             *)
(* control-change on control 82 sets ProgramTable[P][1] (and no other      *)
(* flag), sends one program-change whose program number is 30, the         *)
(* encoding 10 * (2 + 1) + 0 of [false, true, false, false], and the store *)
(* then holds the updated table.                                           *)
(***************************************************************************)
C4_Control82Sends30 ==
    [][ (/\ AdmittedLoopControl
         /\ edit_mode
         /\ message'.control = 82
         /\ active_program \in ProgramSlots
         /\ \A l \in Loops : ~programs[active_program][l])
        => (/\ programs'[active_program] = [l \in Loops |-> l = 1]
            /\ \A q \in ProgramSlots \ {active_program} : programs'[q] = programs[q]
            /\ sent' = <<ProgramChange(out_channel, 30)>>
            /\ Encode([l \in Loops |-> l = 1]) = 30
            /\ state_file' = programs') ]_vars

C4_Witness ==
    /\ did = "edit_program"
    /\ message.control = 82
    /\ sent = <<ProgramChange(out_channel, 30)>>
    /\ state_file[active_program] = [l \in Loops |-> l = 1]

(***************************************************************************)
(* C5  Program encoding: the number sent for a configuration f is          *)
(* 10 * (digit(f[0],f[1]) + 1) + digit(f[2],f[3]); the 16 configurations   *)
(* get 16 different numbers, the set {10..13, 20..23, 30..33, 40..43}; and *)
(* every program-change sent carries the encoding of ActiveState, a number *)
(* of that set.                                                            *)
(***************************************************************************)
C5_Encoding ==
    /\ \A f \in LoopStates : looper_program(f) = Encode(f)
    /\ \A f, g \in LoopStates : looper_program(f) = looper_program(g) => f = g
    /\ {looper_program(f) : f \in LoopStates} = LooperNumbers
    /\ Cardinality(LooperNumbers) = 16
    /\ \A i \in DOMAIN sent :
          sent[i].type = "program_change"
          => (/\ sent[i].program = Encode(active_state)
              /\ sent[i].program \in LooperNumbers
              /\ sent[i].channel = out_channel)

\* loops 0, 1 and 3 on: the program-change sent carries 42
C5_Witness ==
    /\ did = "edit_program"
    /\ active_state = [l \in Loops |-> l # 2]
    /\ sent = <<ProgramChange(out_channel, 42)>>

(***************************************************************************)
(* C6  Edit-mode exit: in Edit(P) an admitted program-change for Q # P     *)
(* sets the mode to Normal and changes nothing else but the event history  *)
(* and the debounce clock: the table, ActiveState, active_program (still   *)
(* P) and the store stay, and nothing is sent.                             *)
(***************************************************************************)
C6_EditExit ==
    [][ (/\ AdmittedProgramChange
         /\ edit_mode
         /\ message'.program # active_program)
        => (/\ ~edit_mode'
            /\ UNCHANGED <<programs, active_state, active_program, crashed>>
            /\ Silent) ]_vars

\* Edit(0) left by a press of program 1
C6_Witness ==
    /\ did = "exit_edit"
    /\ ~edit_mode
    /\ active_program = 0
    /\ program_history = <<0, 0, 1>>

(***************************************************************************)
(* C7  Manual toggle isolation: in Normal mode an admitted control-change  *)
(* with control c in 80..83 flips only ActiveState[3 - (c - 80)], sends    *)
(* one control-change (out_channel, 80 + loop, 127 if now on else 0) and   *)
(* leaves the table, the store, the mode and active_program as they were;  *)
(* and no step taken in Normal mode changes the table or writes the store. *)
(***************************************************************************)
C7_ManualToggle ==
    [][ /\ (AdmittedLoopControl /\ ~edit_mode)
            => LET loop == 3 - (message'.control - 80)
               IN /\ active_state' = [active_state EXCEPT ![loop] = ~active_state[loop]]
                  /\ sent' = <<ControlChange(out_channel, 80 + loop,
                                             IF active_state'[loop] THEN 127 ELSE 0)>>
                  /\ UNCHANGED <<programs, state_file, edit_mode, active_program>>
                  /\ writes' = 0
        /\ ~edit_mode => (UNCHANGED <<programs, state_file>> /\ writes' = 0) ]_vars

\* loop 0 toggled on and off again by hand: the table entry is still off
C7_Witness ==
    /\ did = "toggle_loop"
    /\ handled >= 2
    /\ message.control = 83
    /\ ~active_state[0]
    /\ sent = <<ControlChange(out_channel, 80, 0)>>
    /\ programs = AllOff
    /\ state_file = AllOff

(***************************************************************************)
(* C8  Normal-mode program switch: in Normal mode an admitted              *)
(* program-change for a program slot Q # active_program that does not      *)
(* complete a triple-tap selects Q, makes ActiveState a copy of            *)
(* ProgramTable[Q], sends one program-change with its encoding on          *)
(* out_channel, stays in Normal mode, and neither changes the table nor    *)
(* writes the store.  (Q is a slot of the table: below n_programs.)        *)
(***************************************************************************)
C8_ProgramSwitch ==
    [][ (/\ AdmittedProgramChange
         /\ ~edit_mode
         /\ message'.program \in ProgramSlots
         /\ message'.program # active_program
         /\ ~CompletesTripleTap(message'.program))
        => LET q == message'.program
           IN /\ active_program' = q
              /\ active_state' = programs[q]
              /\ sent' = <<ProgramChange(out_channel, Encode(programs[q]))>>
              /\ ~edit_mode'
              /\ ~crashed'
              /\ UNCHANGED <<programs, state_file>>
              /\ writes' = 0 ]_vars

\* a switch back to program 0 after a switch to program 1
C8_Witness ==
    /\ did = "change_program"
    /\ handled >= 2
    /\ active_program = 0
    /\ program_history[2] = 1
    /\ program_history[3] = 0
    /\ active_state = programs[0]
    /\ sent = <<ProgramChange(out_channel, Encode(programs[0]))>>

(***************************************************************************)
(* C9  Debounce: an event that arrives less than 100 ms after the arrival  *)
(* of the event before it (admitted or not) is a no-op whatever its type,  *)
(* content and channel: mode, active_program, table, ActiveState and event *)
(* history stay, nothing is sent, the store is not written.                *)
(***************************************************************************)
C9_Debounce ==
    [][ (Handled /\ handled >= 1 /\ clk'[1] - clk[1] < 100)
        => (/\ UNCHANGED <<edit_mode, active_program, programs, active_state,
                           ts_history, program_history, crashed>>
            /\ Silent) ]_vars

\* a loop control on the input channel, in Edit mode, 50 ms after the third tap
C9_Witness ==
    /\ did = "debounced"
    /\ edit_mode
    /\ message = ControlChange(in_channel, 80, 127)
    /\ clk[1] - ts_history[3] < 100

(***************************************************************************)
(* C10 As stated: an event the admission filter rejects changes no state   *)
(* at all, the debounce clock included, so that the clock holds the time   *)
(* of the last admitted event.                                             *)
(***************************************************************************)
C10_Original ==
    [][ (Handled /\ ~Admitted) => last_ts' = last_ts ]_vars

(***************************************************************************)
(* C10 amended: the debounce clock holds the arrival time of the latest    *)
(* event, admitted or rejected: every handle() call sets it to its arrival *)
(* time, an event the admission filter rejects changes nothing else, and   *)
(* an event is rejected by the debounce rule exactly when it arrives less  *)
(* than 100 ms after the event before it, even if that one was rejected.   *)
(***************************************************************************)
C10_ClockFollowsEveryEvent ==
    [][ Handled
        => (/\ last_ts' = clk'[1]
            /\ did' = "debounced" <=> clk'[1] - last_ts < 100
            /\ handled >= 1 => last_ts = clk[1]
            /\ Rejected
                => (/\ UNCHANGED <<edit_mode, active_program, programs,
                                   active_state, ts_history, program_history,
                                   crashed>>
                    /\ Silent)) ]_vars

\* a program-change admitted at T, an event at T + 50 rejected, and an event
\* on the input channel at T + 100 rejected by the debounce rule
C10_Witness ==
    /\ did = "debounced"
    /\ handled = 3
    /\ message.channel = in_channel
    /\ ts_history[3] > 0
    /\ clk[1] - ts_history[3] >= 100

(***************************************************************************)
(* C11: the store mirrors the table.  After construction and after every   *)
(* handled event, while writes to the store succeed, the content of the    *)
(* store equals the program table in memory; a step that changes the table *)
(* writes the store once, with the new table, and a step that leaves the   *)
(* table alone neither writes the store nor changes its content.           *)
(***************************************************************************)
C11_StoreMirrorsTable ==
    [][ /\ state_file = programs
        /\ state_file' = programs'
        /\ programs' # programs => writes' = 1
        /\ programs' = programs => (writes' = 0 /\ state_file' = state_file) ]_vars

\* an edit has changed a loaded table and the store holds the changed table
C11_Witness ==
    /\ did = "edit_program"
    /\ writes = 1
    /\ programs \notin StoredTables
    /\ programs[0][0]
    /\ state_file = programs

(***************************************************************************)
(* C12: whatever program numbers the input events carry, numbers beyond    *)
(* the table included, active_program is an index of the program table     *)
(* and no access to the table is out of bounds (no handle() call ends in   *)
(* an IndexError).                                                         *)
(***************************************************************************)
C12_ActiveProgramValid ==
    /\ active_program \in 0 .. n_programs - 1
    /\ exception # "IndexError"

\* the step is a manual toggle of loop i: an admitted control-change for the
\* control of loop i (83 - i) in Normal mode
ManualToggle(i) ==
    /\ AdmittedLoopControl
    /\ ~edit_mode
    /\ message'.control = 83 - i

(***************************************************************************)
(* C13: the active state equals the table entry of the active program      *)
(* right after construction, after every step that switches the program    *)
(* and after every edit-mode toggle; and a step leaves the two different   *)
(* at loop i only if they differed at loop i before it or the step is a    *)
(* manual Normal-mode toggle of loop i.  Hence a difference at loop i      *)
(* always goes back to a manual toggle of loop i made since the active     *)
(* state was last derived from the table; entering or leaving Edit mode    *)
(* creates none.  (States of a running mapper: the table entry exists.)    *)
(***************************************************************************)
C13_ActiveStateFollowsTable ==
    [][ ~crashed'
        => (/\ handled = 0 => active_state = programs[active_program]
            /\ active_program' # active_program
                => active_state' = programs'[active_program']
            /\ (AdmittedLoopControl /\ edit_mode)
                => active_state' = programs'[active_program']
            /\ \A i \in 0 .. 3 :
                  active_state'[i] # programs'[active_program'][i]
                  => (\/ active_state[i] # programs[active_program][i]
                      \/ ManualToggle(i))) ]_vars

\* Edit mode was entered and left again after a manual toggle of loop 0, and
\* the active state still differs from the table at loop 0 and nowhere else
C13_Witness ==
    /\ did = "exit_edit"
    /\ ~edit_mode
    /\ active_state[0] # programs[active_program][0]
    /\ \A i \in 1 .. 3 : active_state[i] = programs[active_program][i]

(***************************************************************************)
(* C14: if the write of the store fails during an edit-mode toggle, the    *)
(* event loop does not crash; the table in memory keeps the flipped flag   *)
(* and stays consistent with the active state, so that later events are    *)
(* handled and the next edit writes the whole table again.                 *)
(***************************************************************************)
C14_WriteFailureSurvived ==
    [][ (AdmittedLoopControl /\ edit_mode /\ store_fault # "none")
        => (/\ ~crashed'
            /\ programs'[active_program][83 - message'.control]
                  # programs[active_program][83 - message'.control]
            /\ active_state' = programs'[active_program]) ]_vars

(***************************************************************************)
(* C15: startup.  Without persisted state the table has one configuration  *)
(* per program, each of n_loops flags, all false, and is written to the    *)
(* store at once; with persisted state the table is the stored one and the *)
(* store is not written.  Either way the mapper starts in Normal mode with *)
(* active_program = 0 and the active state equal to the table entry 0.     *)
(***************************************************************************)
C15_Startup ==
    did = "init"
    => (/\ exception = "none"
        /\ writes \in {0, 1}
        /\ writes = 1
            => (/\ DOMAIN programs = 0 .. n_programs - 1
                /\ \A p \in DOMAIN programs :
                      /\ DOMAIN programs[p] = 0 .. 3
                      /\ \A l \in 0 .. 3 : ~programs[p][l]
                /\ state_file = programs)
        /\ writes = 0 => (programs = state_file /\ programs \in StoredTables)
        /\ ~edit_mode
        /\ active_program = 0
        /\ active_state = programs[0])

(***************************************************************************)
(* C16: channel filter.  An event whose channel is not the input channel,  *)
(* whatever its type and arrival time, changes neither the mode, nor       *)
(* active_program, nor the program table, nor the active state, nor the    *)
(* event history; it sends nothing and does not write the store.  Its only *)
(* effect is on the debounce clock.  (A message without a channel is such  *)
(* an event: its channel is not the input channel.)                        *)
(***************************************************************************)
C16_ChannelFilter ==
    [][ (Handled /\ message'.channel # in_channel)
        => (/\ UNCHANGED <<edit_mode, active_program, programs, active_state,
                           ts_history, program_history, crashed>>
            /\ Silent
            /\ last_ts' = clk'[1]) ]_vars

\* the step dispatched its event: it was not rejected, and a program-change
\* was pushed into the event history with the time of the call
Dispatched ==
    /\ did' \notin {"debounced", "filtered"}
    /\ message'.type = "program_change"
        => (/\ program_history'
                 = <<program_history[2], program_history[3], message'.program>>
            /\ ts_history' = <<ts_history[2], ts_history[3], clk'[3]>>)

(***************************************************************************)
(* C17 as stated: an event of the input channel that arrives at least      *)
(* 100 ms, exactly 100 ms included, after the previous event and after the *)
(* newest entry of the event history is admitted: it is dispatched and, if *)
(* a program-change, pushed into the event history.                        *)
(***************************************************************************)
C17_Original ==
    [][ (/\ Handled
         /\ message'.channel = in_channel
         /\ clk'[1] - last_ts >= 100
         /\ clk'[1] - ts_history[3] >= 100)
        => Dispatched ]_vars

(***************************************************************************)
(* C17 amended: an event of the input channel is admitted exactly when it  *)
(* arrives at least 100 ms (exactly 100 ms included) after the previous    *)
(* event and its history check is made strictly more than 100 ms after the *)
(* newest entry of the event history.  A program-change handled exactly    *)
(* 100 ms after the previous admitted program-change passes the debounce   *)
(* rule and is rejected by the history rule: it is neither pushed into the *)
(* event history nor dispatched.                                           *)
(***************************************************************************)
C17_AdmissionBoundary ==
    [][ (Handled /\ message'.channel = in_channel)
        => (/\ Dispatched
                <=> (clk'[1] - last_ts >= 100 /\ clk'[2] - ts_history[3] > 100)
            /\ (clk'[1] - last_ts >= 100 /\ clk'[2] - ts_history[3] = 100)
                => (/\ did' = "filtered"
                    /\ UNCHANGED <<edit_mode, active_program, programs,
                                   active_state, ts_history, program_history,
                                   crashed>>
                    /\ Silent)) ]_vars

\* a program-change for another program, handled exactly 100 ms after the
\* admitted program-change before it, was rejected by the history rule
C17_Witness ==
    /\ did = "filtered"
    /\ message.type = "program_change"
    /\ message.channel = in_channel
    /\ message.program # active_program
    /\ program_history[3] = active_program
    /\ clk[1] - ts_history[3] = 100
    /\ clk[2] - ts_history[3] = 100

(***************************************************************************)
(* C18: whenever a step takes the mapper from Normal mode to Edit mode,    *)
(* the program of the event is the program that was active before the      *)
(* step: entering Edit mode leaves active_program as it was and sends      *)
(* nothing.  An admitted Normal-mode program-change that completes a       *)
(* triple-tap is never one for a program other than the active one.        *)
(***************************************************************************)
C18_EnterEditKeepsProgram ==
    [][ /\ (Handled /\ ~edit_mode /\ edit_mode')
            => (/\ message'.type = "program_change"
                /\ message'.program = active_program
                /\ active_program' = active_program
                /\ sent' = <<>>)
        /\ (/\ AdmittedProgramChange
            /\ ~edit_mode
            /\ CompletesTripleTap(message'.program))
            => message'.program = active_program ]_vars

\* Edit(1) was entered by three taps of program 1 from program 0: the first
\* tap switched the program, the third found program 1 active
C18_Witness ==
    /\ did = "enter_edit"
    /\ edit_mode
    /\ active_program = 1
    /\ press_log[1] = [edit |-> FALSE, active |-> 0, sent |-> 1]
    /\ press_log[3] = [edit |-> FALSE, active |-> 1, sent |-> 0]

(***************************************************************************)
(* C19: in Normal mode an admitted program-change for the program that is  *)
(* already active, which does not complete a triple-tap, sends nothing and *)
(* leaves the active state, the program table, active_program and the mode *)
(* unchanged; the event history and the debounce clock alone change.  A    *)
(* manual toggle made before it is therefore kept.                         *)
(***************************************************************************)
C19_SameProgramPress ==
    [][ (/\ AdmittedProgramChange
         /\ ~edit_mode
         /\ message'.program = active_program
         /\ ~CompletesTripleTap(message'.program))
        => (/\ Silent
            /\ UNCHANGED <<active_state, programs, active_program, edit_mode,
                           crashed>>
            /\ program_history'[3] = message'.program
            /\ ts_history'[3] = clk'[3]
            /\ last_ts' = clk'[1]) ]_vars

\* the button of the active program was pressed after a manual toggle of
\* loop 0, and the active state still carries the toggle
C19_Witness ==
    /\ did = "no_match"
    /\ ~edit_mode
    /\ message.type = "program_change"
    /\ message.program = active_program
    /\ program_history[3] = active_program
    /\ active_state[0] # programs[active_program][0]
    /\ sent = <<>>

(***************************************************************************)
(* C20: program-changes admitted in Edit mode are recorded in the event    *)
(* history, so the press that leaves Edit(P) counts as the first tap of a  *)
(* triple-tap.  When the last three admitted program-changes were for one  *)
(* program Q, the first of them was made in Edit(P) with P # Q, and the    *)
(* first and the third are at most tripletap_time apart, the mapper is in  *)
(* Edit(Q) with active_program = Q; the first press (the exit) sent no     *)
(* program-change, the second (the switch to Q) sent exactly one and the   *)
(* third (the entry into Edit(Q)) none.                                    *)
(***************************************************************************)
C20_ExitPressIsFirstTap ==
    LET q == program_history[3]
    IN (/\ program_history = <<q, q, q>>
        /\ press_log[1].edit
        /\ press_log[1].active # q
        /\ ts_history[3] - ts_history[1] <= 1000)
       => (/\ edit_mode
           /\ active_program = q
           /\ press_log[1].sent = 0
           /\ ~press_log[2].edit /\ press_log[2].sent = 1
           /\ ~press_log[3].edit /\ press_log[3].sent = 0)

\* Edit(0) was left by a press of program 1, and two more presses of
\* program 1 led to Edit(1)
C20_Witness ==
    /\ did = "enter_edit"
    /\ edit_mode
    /\ active_program = 1
    /\ program_history = <<1, 1, 1>>
    /\ press_log[1] = [edit |-> TRUE, active |-> 0, sent |-> 0]
    /\ press_log[2] = [edit |-> FALSE, active |-> 0, sent |-> 1]
    /\ ts_history[3] - ts_history[1] <= 1000

====
